---- MODULE Spec2Model ----
(***************************************************************************)
(* Model of src/main.py: the 3D-to-2D CAD converter.                       *)
(*                                                                         *)
(* Three specifications share the module:                                  *)
(*   SpecNorm : CADConverter.normalize_coords applied to bounded point sets*)
(*   SpecEnc  : the three encoders applied to bounded meshes               *)
(*   SpecSrv  : the /convert and /convert/batch handlers and the delivery  *)
(*              of their FileResponse, interleaved over a shared OUTPUT_DIR*)
(*                                                                         *)
(* Numbers.  The code computes in float64.  The model computes exactly in  *)
(* the field Q(sqrt 2): a number is [a, b, d] and stands for               *)
(* (a + b*sqrt(2)) / d, d > 0, gcd(a, b, d) = 1.  sqrt(2) is needed        *)
(* because the isometric view multiplies by cos(45 deg) = sin(45 deg) =    *)
(* sqrt(2)/2.  Rounding of float64 is not modelled.                        *)
(*                                                                         *)
(* Indices are 1-based here and 0-based in the code.                       *)
(***************************************************************************)
EXTENDS Integers, Sequences, FiniteSets, TLC

VARIABLES
    n_points,    \* SpecNorm: the points handed to normalize_coords
    n_size,      \* SpecNorm: the canvas size
    n_result,    \* SpecNorm: [done, out]: what normalize_coords returned
    mesh,        \* SpecEnc: the mesh [vertices, faces]
    e_call,      \* SpecEnc: [done, fmt, view, mode, size]: the last encoder call
    e_out,       \* SpecEnc: [done, out]: what that call did, out = [raised, written, doc]
    reqs,        \* SpecSrv: the requests, by id
    pc,          \* SpecSrv: each request's position
    files,       \* SpecSrv: OUTPUT_DIR, file name -> [content, writer] (absent: not in DOMAIN)
    tempfiles,   \* SpecSrv: the temporary input copies that exist (by request id)
    resp,        \* SpecSrv: each request's response as the handler returned it
    delivered    \* SpecSrv: what the client of each request received

vars == <<n_points, n_size, n_result, mesh, e_call, e_out,
          reqs, pc, files, tempfiles, resp, delivered>>

normVars == <<n_points, n_size, n_result>>
encVars  == <<mesh, e_call, e_out>>
srvVars  == <<reqs, pc, files, tempfiles, resp, delivered>>

---------------------------------------------------------------------------
(* Bounds of the model *)

MaxPts == 2
MaxFaces == 2
NumReq == 2

(* normalize_coords' default margin *)
Margin == 50

---------------------------------------------------------------------------
(* Exact arithmetic in Q(sqrt 2) *)

Abs(x) == IF x < 0 THEN -x ELSE x

(* F(v), with v evaluated once *)
Bind(v, F(_)) == CHOOSE y \in {F(x) : x \in {v}} : TRUE

RECURSIVE GCD(_, _)
GCD(m, n) == IF n = 0 THEN m ELSE Bind(m % n, LAMBDA r : GCD(n, r))

NNorm(a, b, d) ==
    LET g == GCD(GCD(Abs(a), Abs(b)), Abs(d))
        s == IF d < 0 THEN -1 ELSE 1
    IN  [a |-> (s * a) \div g, b |-> (s * b) \div g, d |-> (s * d) \div g]

NInt(k) == [a |-> k, b |-> 0, d |-> 1]
NFrac(p, q) == NNorm(p, 0, q)

NAdd(x, y) == NNorm(x.a * y.d + y.a * x.d, x.b * y.d + y.b * x.d, x.d * y.d)
NNeg(x) == [a |-> -x.a, b |-> -x.b, d |-> x.d]
NSub(x, y) == NAdd(x, NNeg(y))
NMul(x, y) == NNorm(x.a * y.a + 2 * x.b * y.b, x.a * y.b + x.b * y.a, x.d * y.d)
(* 1/x for x # 0: d*(a - b*sqrt 2) / (a^2 - 2*b^2) *)
NInv(x) == NNorm(x.d * x.a, -(x.d * x.b), x.a * x.a - 2 * x.b * x.b)
NDiv(x, y) == NMul(x, NInv(y))

NSign(x) ==
    IF x.a = 0 /\ x.b = 0 THEN 0
    ELSE IF x.a >= 0 /\ x.b >= 0 THEN 1
    ELSE IF x.a <= 0 /\ x.b <= 0 THEN -1
    ELSE IF x.a > 0 THEN (IF x.a * x.a > 2 * x.b * x.b THEN 1 ELSE -1)
    ELSE (IF 2 * x.b * x.b > x.a * x.a THEN 1 ELSE -1)

NLe(x, y) == NSign(NSub(y, x)) >= 0
NLt(x, y) == NSign(NSub(y, x)) > 0
NIsZero(x) == x.a = 0 /\ x.b = 0

(* numpy's min / max of a non-empty column *)
NMinSeq(s) == s[CHOOSE i \in 1..Len(s) : \A j \in 1..Len(s) : NLe(s[i], s[j])]
NMaxSeq(s) == s[CHOOSE i \in 1..Len(s) : \A j \in 1..Len(s) : NLe(s[j], s[i])]

Column(points, k) == [i \in 1..Len(points) |-> points[i][k]]

---------------------------------------------------------------------------
(* normalize_coords returns [raised, normalized, scale].  margin is always *)
(* the default, 50.  An empty array makes points.min(axis=0) raise         *)
(* ValueError.                                                             *)

(* variant: min_vals is not subtracted *)
normalize_coords_no_min(points, size) ==
    IF Len(points) = 0 THEN [raised |-> TRUE, normalized |-> <<>>, scale |-> NInt(0)]
    ELSE
    Bind(<<NMinSeq(Column(points, 1)), NMinSeq(Column(points, 2))>>, LAMBDA min_vals :
    Bind(<<NMaxSeq(Column(points, 1)), NMaxSeq(Column(points, 2))>>, LAMBDA max_vals :
    LET raw == [k \in 1..2 |-> NSub(max_vals[k], min_vals[k])]
        range_vals == [k \in 1..2 |-> IF NIsZero(raw[k]) THEN NInt(1) ELSE raw[k]]
        mx == IF NLt(range_vals[1], range_vals[2]) THEN range_vals[2] ELSE range_vals[1]
    IN  Bind(NDiv(NInt(size - 2 * Margin), mx), LAMBDA scale :
            [raised |-> FALSE,
             normalized |-> [i \in 1..Len(points) |->
                  [k \in 1..2 |-> NAdd(NMul(points[i][k], scale), NInt(Margin))]],
             scale |-> scale])))

(* variant: the scale divides by the smaller range *)
normalize_coords_min_range(points, size) ==
    IF Len(points) = 0 THEN [raised |-> TRUE, normalized |-> <<>>, scale |-> NInt(0)]
    ELSE
    Bind(<<NMinSeq(Column(points, 1)), NMinSeq(Column(points, 2))>>, LAMBDA min_vals :
    Bind(<<NMaxSeq(Column(points, 1)), NMaxSeq(Column(points, 2))>>, LAMBDA max_vals :
    LET raw == [k \in 1..2 |-> NSub(max_vals[k], min_vals[k])]
        range_vals == [k \in 1..2 |-> IF NIsZero(raw[k]) THEN NInt(1) ELSE raw[k]]
        mx == IF NLt(range_vals[1], range_vals[2]) THEN range_vals[1] ELSE range_vals[2]
    IN  Bind(NDiv(NInt(size - 2 * Margin), mx), LAMBDA scale :
            [raised |-> FALSE,
             normalized |-> [i \in 1..Len(points) |->
                  [k \in 1..2 |-> NAdd(NMul(NSub(points[i][k], min_vals[k]), scale), NInt(Margin))]],
             scale |-> scale])))

(* CADConverter.normalize_coords *)
normalize_coords(points, size) ==
    IF Len(points) = 0 THEN [raised |-> TRUE, normalized |-> <<>>, scale |-> NInt(0)]
    ELSE
    Bind(<<NMinSeq(Column(points, 1)), NMinSeq(Column(points, 2))>>, LAMBDA min_vals :
    Bind(<<NMaxSeq(Column(points, 1)), NMaxSeq(Column(points, 2))>>, LAMBDA max_vals :
    LET raw == [k \in 1..2 |-> NSub(max_vals[k], min_vals[k])]
        \* np.where(range_vals == 0, 1, range_vals)
        range_vals == [k \in 1..2 |-> IF NIsZero(raw[k]) THEN NInt(1) ELSE raw[k]]
        \* Python's max(range_vals)
        mx == IF NLt(range_vals[1], range_vals[2]) THEN range_vals[2] ELSE range_vals[1]
    IN  Bind(NDiv(NInt(size - 2 * Margin), mx), LAMBDA scale :
            [raised |-> FALSE,
             normalized |-> [i \in 1..Len(points) |->
                  [k \in 1..2 |-> NAdd(NMul(NSub(points[i][k], min_vals[k]), scale), NInt(Margin))]],
             scale |-> scale])))

---------------------------------------------------------------------------
(* The mesh: [vertices |-> sequence of <<x, y, z>> (integers),             *)
(*            faces    |-> sequence of <<a, b, c>> (vertex indices)]       *)

ValidViews == {"top", "front", "side", "isometric"}
ValidModes == {"wireframe", "filled", "outline"}

(* cos(45 deg) = sin(45 deg) = sqrt(2)/2 *)
cos_a == NNorm(0, 1, 2)
sin_a == NNorm(0, 1, 2)

(* CADConverter.get_projection: one 2D point per vertex, index-aligned *)
get_projection(m, view) ==
    [i \in 1..Len(m.vertices) |->
        LET v == m.vertices[i]
            x == NInt(v[1])
            y == NInt(v[2])
            z == NInt(v[3])
        IN  IF view = "top" THEN <<x, y>>
            ELSE IF view = "front" THEN <<x, z>>
            ELSE IF view = "side" THEN <<y, z>>
            ELSE IF view = "isometric"
                 THEN <<NSub(NMul(x, cos_a), NMul(y, sin_a)), z>>
            ELSE <<x, y>>]

(* mesh.edges_unique (trimesh): the edges (a,b), (b,c), (c,a) of every     *)
(* face, each sorted (low, high), deduplicated, and enumerated in a fixed  *)
(* order of the mesh: by (high, low), the order of trimesh's packed row    *)
(* keys.                                                                   *)
FaceEdges(f) ==
    {<<IF f[i] < f[j] THEN f[i] ELSE f[j], IF f[i] < f[j] THEN f[j] ELSE f[i]>> :
        <<i, j>> \in {<<1, 2>>, <<2, 3>>, <<3, 1>>}}

EdgeBefore(e, g) == e[2] < g[2] \/ (e[2] = g[2] /\ e[1] <= g[1])

EdgeSeq(S) ==
    [k \in 1..Cardinality(S) |->
        CHOOSE e \in S : Cardinality({g \in S : EdgeBefore(g, e)}) = k]

edges_unique(m) == EdgeSeq(UNION {FaceEdges(m.faces[k]) : k \in 1..Len(m.faces)})

(* CADConverter.get_outline_edges *)
get_outline_edges(m, view) ==
    Bind(get_projection(m, view), LAMBDA projection :
    Bind(edges_unique(m), LAMBDA edges :
        [k \in 1..Len(edges) |-> <<projection[edges[k][1]], projection[edges[k][2]]>>]))

(* CADConverter.get_filled_projection *)
get_filled_projection(m, view) ==
    Bind(get_projection(m, view), LAMBDA projection :
        [projection |-> projection,
         faces |-> [k \in 1..Len(m.faces) |->
                      [j \in 1..3 |-> projection[m.faces[k][j]]]]])

---------------------------------------------------------------------------
(* The encoders.  Each returns [raised, written, doc]: whether it raised,  *)
(* whether a file was written at output_path, and the primitives of the    *)
(* document written, in order.                                             *)

Raised == [raised |-> TRUE, written |-> FALSE, doc |-> <<>>]
Saved(doc) == [raised |-> FALSE, written |-> TRUE, doc |-> doc]

DxfPolyline(face) == [type |-> "LWPOLYLINE", points |-> face, close |-> TRUE]
DxfLine(p1, p2) == [type |-> "LINE", start |-> p1, end |-> p2]

(* variant: the coordinates are normalized to a canvas before they are written *)
to_dxf_normalized(m, view, mode) ==
    Bind(normalize_coords(get_projection(m, view), 1000), LAMBDA n :
        IF mode = "filled"
        THEN Saved([k \in 1..Len(m.faces) |->
                      DxfPolyline([j \in 1..3 |-> n.normalized[m.faces[k][j]]])])
        ELSE Bind(edges_unique(m), LAMBDA edges :
                Saved([k \in 1..Len(edges) |->
                         DxfLine(n.normalized[edges[k][1]], n.normalized[edges[k][2]])])))

(* CADConverter.to_dxf *)
to_dxf(m, view, mode) ==
    IF mode = "filled"
    THEN Bind(get_filled_projection(m, view), LAMBDA fp :
            Saved([k \in 1..Len(fp.faces) |-> DxfPolyline(fp.faces[k])]))
    ELSE Bind(get_outline_edges(m, view), LAMBDA edges :
            Saved([k \in 1..Len(edges) |-> DxfLine(edges[k][1], edges[k][2])]))

(* y' = size - y *)
Flip(p, size) == <<p[1], NSub(NInt(size), p[2])>>

(* np.vstack([p for edge in edges for p in edge]) *)
Flatten(edges) ==
    [i \in 1..(2 * Len(edges)) |-> edges[(i + 1) \div 2][IF i % 2 = 1 THEN 1 ELSE 2]]

SvgRect(size) ==
    [type |-> "rect", insert |-> <<0, 0>>, size |-> <<size, size>>, fill |-> "white"]
SvgPolygon(points) ==
    [type |-> "polygon", points |-> points, fill |-> "lightgray",
     stroke |-> "black", stroke_width |-> NFrac(1, 2)]
SvgLine(p1, p2, w) ==
    [type |-> "line", start |-> p1, end |-> p2, stroke |-> "black", stroke_width |-> w]

(* the filled branch of to_svg, as the variants of to_svg below use it *)
SvgFilled(m, view, size) ==
    Bind(get_filled_projection(m, view), LAMBDA fp :
    Bind(normalize_coords(fp.projection, size), LAMBDA n :
        IF n.raised THEN Raised
        ELSE Saved(<<SvgRect(size)>> \o
                [k \in 1..Len(m.faces) |->
                    SvgPolygon([j \in 1..3 |-> Flip(n.normalized[m.faces[k][j]], size)])])))

(* variant: point_idx advances by 1, pairing endpoints of different edges *)
to_svg_step_one(m, view, size, mode) ==
    IF mode = "filled" THEN SvgFilled(m, view, size)
    ELSE Bind(get_outline_edges(m, view), LAMBDA edges :
            IF Len(edges) = 0 THEN Raised
            ELSE Bind(normalize_coords(Flatten(edges), size), LAMBDA n :
                    Saved(<<SvgRect(size)>> \o
                        [k \in 1..Len(edges) |->
                            SvgLine(Flip(n.normalized[k], size),
                                    Flip(n.normalized[k + 1], size), NFrac(3, 2))])))

(* variant: outline mode strokes at the fine width of filled mode *)
to_svg_thin_outline(m, view, size, mode) ==
    IF mode = "filled" THEN SvgFilled(m, view, size)
    ELSE Bind(get_outline_edges(m, view), LAMBDA edges :
            IF Len(edges) = 0 THEN Raised
            ELSE Bind(normalize_coords(Flatten(edges), size), LAMBDA n :
                    Saved(<<SvgRect(size)>> \o
                        [k \in 1..Len(edges) |->
                            SvgLine(Flip(n.normalized[2 * k - 1], size),
                                    Flip(n.normalized[2 * k], size),
                                    IF mode = "outline" THEN NFrac(1, 2) ELSE NFrac(3, 2))])))

(* CADConverter.to_svg *)
to_svg(m, view, size, mode) ==
    IF mode = "filled"
    THEN Bind(get_filled_projection(m, view), LAMBDA fp :
         Bind(normalize_coords(fp.projection, size), LAMBDA n :
            IF n.raised THEN Raised
            ELSE Saved(<<SvgRect(size)>> \o
                    [k \in 1..Len(m.faces) |->
                        SvgPolygon([j \in 1..3 |-> Flip(n.normalized[m.faces[k][j]], size)])])))
    ELSE Bind(get_outline_edges(m, view), LAMBDA edges :
            \* np.vstack of an empty list raises ValueError
            IF Len(edges) = 0 THEN Raised
            ELSE Bind(normalize_coords(Flatten(edges), size), LAMBDA n :
                    \* point_idx runs 0, 2, 4, ...: p1 = normalized[point_idx],
                    \* p2 = normalized[point_idx + 1]
                    Saved(<<SvgRect(size)>> \o
                        [k \in 1..Len(edges) |->
                            SvgLine(Flip(n.normalized[2 * k - 1], size),
                                    Flip(n.normalized[2 * k], size), NFrac(3, 2))])))

PngImage(size) == [type |-> "image", size |-> <<size, size>>, fill |-> "white"]
PngPolygon(points) ==
    [type |-> "polygon", points |-> points, fill |-> <<200, 200, 200>>, outline |-> <<0, 0, 0>>]
PngLine(p1, p2) == [type |-> "line", points |-> <<p1, p2>>, fill |-> "black", width |-> 2]

(* CADConverter.to_png: the draw calls on the image, in order *)
to_png(m, view, size, mode) ==
    IF mode = "filled"
    THEN Bind(get_filled_projection(m, view), LAMBDA fp :
         Bind(normalize_coords(fp.projection, size), LAMBDA n :
            IF n.raised THEN Raised
            ELSE Saved(<<PngImage(size)>> \o
                    [k \in 1..Len(m.faces) |->
                        PngPolygon([j \in 1..3 |-> Flip(n.normalized[m.faces[k][j]], size)])])))
    ELSE Bind(get_outline_edges(m, view), LAMBDA edges :
            IF Len(edges) = 0 THEN Raised
            ELSE Bind(normalize_coords(Flatten(edges), size), LAMBDA n :
                    Saved(<<PngImage(size)>> \o
                        [k \in 1..Len(edges) |->
                            PngLine(Flip(n.normalized[2 * k - 1], size),
                                    Flip(n.normalized[2 * k], size))])))

(* the dispatch of convert_cad and batch_convert on the output format *)
Encode(m, fmt, view, size, mode) ==
    IF fmt = "dxf" THEN to_dxf(m, view, mode)
    ELSE IF fmt = "svg" THEN to_svg(m, view, size, mode)
    ELSE to_png(m, view, size, mode)

---------------------------------------------------------------------------
(* The service layer.  A request is                                        *)
(*   [kind, stem, ext, load_ok, mesh, views, fmts, mode, size]             *)
(* kind is "convert" or "batch"; stem and ext are those of file.filename;  *)
(* load_ok says whether load_3d_model returns a mesh (mesh) or raises;     *)
(* /convert has one view and one format.                                   *)
(* A file of OUTPUT_DIR is named by <<stem, view, mode, fmt>> and the zip  *)
(* of a batch by <<stem, "batch", "", "zip">>.                             *)
(* Both handlers are `async def` without any await: each runs to its       *)
(* return in one step of the event loop.  The FileResponse it returns is   *)
(* sent afterwards, in a later step, reading the file as it is then.       *)

NATIVE_FORMATS == {".stl", ".obj", ".ply", ".off", ".glb", ".gltf"}
STEP_FORMATS == {".step", ".stp"}
ALL_FORMATS == NATIVE_FORMATS \cup STEP_FORMATS

NoPath == <<"", "", "", "">>
OutputPath(rq, view, fmt) == <<rq.stem, view, rq.mode, fmt>>
ZipPath(rq) == <<rq.stem, "batch", "", "zip">>

EmptyDir == [n \in {} |-> n]
Exists(fs, name) == name \in DOMAIN fs
WriteFile(fs, name, content, w) ==
    [n \in DOMAIN fs \cup {name} |->
        IF n = name THEN [content |-> content, writer |-> w] ELSE fs[n]]
Unlink(fs, name) == [n \in DOMAIN fs \ {name} |-> fs[n]]

HttpError(code) == [status |-> code, path |-> NoPath]
FileResponse(path) == [status |-> 200, path |-> path]

(* variant: the temporary upload is unlinked on the success path only *)
convert_cad_no_finally(id, rq, fs, tmps) ==
    IF rq.ext \notin ALL_FORMATS
    THEN [files |-> fs, tempfiles |-> tmps, resp |-> HttpError(400)]
    ELSE
    LET saved == tmps \cup {id}
        output_path == OutputPath(rq, rq.views[1], rq.fmts[1])
    IN  IF ~rq.load_ok
        THEN [files |-> fs, tempfiles |-> saved, resp |-> HttpError(500)]
        ELSE Bind(Encode(rq.mesh, rq.fmts[1], rq.views[1], rq.size, rq.mode), LAMBDA out :
                 IF out.raised
                 THEN [files |-> fs, tempfiles |-> saved, resp |-> HttpError(500)]
                 ELSE [files |-> WriteFile(fs, output_path, out.doc, id),
                       tempfiles |-> saved \ {id},
                       resp |-> FileResponse(output_path)])

(* convert_cad, the handler of POST /convert *)
convert_cad(id, rq, fs, tmps) ==
    IF rq.ext \notin ALL_FORMATS
    THEN [files |-> fs, tempfiles |-> tmps, resp |-> HttpError(400)]
    ELSE
    LET \* tempfile.NamedTemporaryFile(delete=False): a fresh name per request
        saved == tmps \cup {id}
        output_path == OutputPath(rq, rq.views[1], rq.fmts[1])
        \* finally: input_path.unlink(missing_ok=True)
        cleaned == saved \ {id}
    IN  IF ~rq.load_ok
        THEN [files |-> fs, tempfiles |-> cleaned, resp |-> HttpError(500)]
        ELSE Bind(Encode(rq.mesh, rq.fmts[1], rq.views[1], rq.size, rq.mode), LAMBDA out :
                 IF out.raised
                 THEN [files |-> fs, tempfiles |-> cleaned, resp |-> HttpError(500)]
                 ELSE [files |-> WriteFile(fs, output_path, out.doc, id),
                       tempfiles |-> cleaned,
                       resp |-> FileResponse(output_path)])

(* the (view, fmt) units of a batch in the order of its two loops *)
Units(rq) ==
    [i \in 1..(Len(rq.views) * Len(rq.fmts)) |->
        <<rq.views[((i - 1) \div Len(rq.fmts)) + 1], rq.fmts[((i - 1) % Len(rq.fmts)) + 1]>>]

(* the loops of batch_convert from unit k on: [files, entries, raised].    *)
(* An encoder that raises ends the loops; the units before it have been    *)
(* written, added to the zip and unlinked.                                 *)
RECURSIVE BatchLoop(_, _, _, _, _)
BatchLoop(id, rq, k, fs, entries) ==
    IF k > Len(Units(rq)) THEN [files |-> fs, entries |-> entries, raised |-> FALSE]
    ELSE LET view  == Units(rq)[k][1]
             fmt   == Units(rq)[k][2]
             fpath == OutputPath(rq, view, fmt)
         IN  Bind(Encode(rq.mesh, fmt, view, rq.size, rq.mode), LAMBDA out :
                IF out.raised
                THEN [files |-> fs, entries |-> entries, raised |-> TRUE]
                ELSE \* encoder wrote fpath; zipf.write(fpath, fname); fpath.unlink()
                     Bind(Unlink(WriteFile(fs, fpath, out.doc, id), fpath), LAMBDA fs2 :
                     Bind(Append(entries, [name |-> fpath, content |-> out.doc]), LAMBDA entries2 :
                        BatchLoop(id, rq, k + 1, fs2, entries2))))

(* batch_convert, the handler of POST /convert/batch *)
batch_convert(id, rq, fs, tmps) ==
    IF rq.ext \notin ALL_FORMATS
    THEN [files |-> fs, tempfiles |-> tmps, resp |-> HttpError(400)]
    ELSE
    LET saved == tmps \cup {id}
        zip_path == ZipPath(rq)
        \* finally: input_path.unlink(missing_ok=True)
        cleaned == saved \ {id}
    IN  IF ~rq.load_ok
        THEN [files |-> fs, tempfiles |-> cleaned, resp |-> HttpError(500)]
        ELSE \* ZipFile(zip_path, 'w') creates the archive; leaving the with
             \* block, also by an exception, closes it
             Bind(BatchLoop(id, rq, 1, fs, <<>>), LAMBDA loop :
                [files |-> WriteFile(loop.files, zip_path, loop.entries, id),
                 tempfiles |-> cleaned,
                 resp |-> IF loop.raised THEN HttpError(500) ELSE FileResponse(zip_path)])

---------------------------------------------------------------------------
(* SpecNorm: normalize_coords on bounded inputs *)

(* coordinates 0, 1/2, 1, 3/2 and sqrt(2)/2 *)
NormCoords == {NFrac(0, 1), NFrac(1, 2), NFrac(1, 1), NFrac(3, 2), NNorm(0, 1, 2)}
NormPoints == NormCoords \X NormCoords
NormSizes == {100, 101, 200}

RECURSIVE SeqsUpTo(_, _)
SeqsUpTo(S, n) ==
    IF n = 0 THEN {<<>>}
    ELSE LET prev == SeqsUpTo(S, n - 1)
         IN  prev \cup {Append(s, x) : s \in {t \in prev : Len(t) = n - 1}, x \in S}

NotDone == [done |-> FALSE]

IdleEnc == mesh = [vertices |-> <<>>, faces |-> <<>>] /\ e_call = NotDone /\ e_out = NotDone
IdleSrv == /\ reqs = <<>> /\ pc = <<>> /\ files = EmptyDir /\ tempfiles = {}
           /\ resp = <<>> /\ delivered = <<>>
IdleNorm == n_points = <<>> /\ n_size = 0 /\ n_result = NotDone

InitNorm ==
    /\ n_points \in SeqsUpTo(NormPoints, MaxPts)
    /\ n_size \in NormSizes
    /\ n_result = NotDone
    /\ IdleEnc
    /\ IdleSrv

Normalize ==
    /\ ~n_result.done
    /\ n_result' = [done |-> TRUE, out |-> normalize_coords(n_points, n_size)]
    /\ UNCHANGED <<n_points, n_size, encVars, srvVars>>

NextNorm == Normalize

SpecNorm == InitNorm /\ [][NextNorm]_vars

---------------------------------------------------------------------------
(* SpecEnc: one encoder call on a bounded mesh *)

VertexLists ==
    { <<>>,
      << <<1, 1, 1>> >>,
      << <<0, 0, 0>>, <<2, 0, 0>>, <<0, 1, 0>> >>,
      << <<1, 2, 3>>, <<1, 2, 3>>, <<1, 2, 3>> >>,
      << <<0, 0, 0>>, <<1, 0, 0>>, <<1, 1, 0>>, <<0, 1, 0>> >>,
      << <<0, 0, 0>>, <<1, 0, 0>>, <<0, 2, 0>>, <<0, 0, 3>> >> }

FaceTriples(n) ==
    {f \in (1..n) \X (1..n) \X (1..n) : (f[1] < f[2] /\ f[2] < f[3]) \/ f = <<3, 1, 2>>}

Meshes ==
    UNION {{[vertices |-> vs, faces |-> fs] : fs \in SeqsUpTo(FaceTriples(Len(vs)), MaxFaces)} :
              vs \in VertexLists}

EncViews == ValidViews \cup {"oblique"}
EncModes == ValidModes \cup {"shaded"}
EncSizes == {100, 200}

InitEnc ==
    /\ mesh \in Meshes
    /\ e_call = NotDone
    /\ e_out = NotDone
    /\ IdleNorm
    /\ IdleSrv

CallDxf ==
    /\ ~e_call.done
    /\ \E view \in EncViews, mode \in EncModes :
        /\ e_call' = [done |-> TRUE, fmt |-> "dxf", view |-> view, mode |-> mode, size |-> 0]
        /\ e_out' = [done |-> TRUE, out |-> to_dxf(mesh, view, mode)]
    /\ UNCHANGED <<mesh, normVars, srvVars>>

CallSvg ==
    /\ ~e_call.done
    /\ \E view \in EncViews, mode \in EncModes, size \in EncSizes :
        /\ e_call' = [done |-> TRUE, fmt |-> "svg", view |-> view, mode |-> mode, size |-> size]
        /\ e_out' = [done |-> TRUE, out |-> to_svg(mesh, view, size, mode)]
    /\ UNCHANGED <<mesh, normVars, srvVars>>

CallPng ==
    /\ ~e_call.done
    /\ \E view \in EncViews, mode \in EncModes, size \in EncSizes :
        /\ e_call' = [done |-> TRUE, fmt |-> "png", view |-> view, mode |-> mode, size |-> size]
        /\ e_out' = [done |-> TRUE, out |-> to_png(mesh, view, size, mode)]
    /\ UNCHANGED <<mesh, normVars, srvVars>>

NextEnc == CallDxf \/ CallSvg \/ CallPng

SpecEnc == InitEnc /\ [][NextEnc]_vars

---------------------------------------------------------------------------
(* SpecSrv: NumReq requests against one server *)

Tri == [vertices |-> << <<0, 0, 0>>, <<2, 0, 0>>, <<0, 1, 0>> >>, faces |-> << <<1, 2, 3>> >>]
Sq  == [vertices |-> << <<0, 0, 0>>, <<1, 0, 0>>, <<1, 1, 0>>, <<0, 1, 0>> >>,
        faces |-> << <<1, 2, 3>>, <<1, 3, 4>> >>]
NoVertices == [vertices |-> <<>>, faces |-> <<>>]

Req(kind, stem, ext, load_ok, m, views, fmts, mode, size) ==
    [kind |-> kind, stem |-> stem, ext |-> ext, load_ok |-> load_ok, mesh |-> m,
     views |-> views, fmts |-> fmts, mode |-> mode, size |-> size]

Requests ==
    { Req("convert", "a", ".stl", TRUE, Tri, <<"top">>, <<"svg">>, "filled", 200),
      Req("convert", "a", ".stl", TRUE, Sq, <<"top">>, <<"svg">>, "filled", 200),
      Req("convert", "a", ".obj", TRUE, Tri, <<"top">>, <<"svg">>, "filled", 100),
      Req("convert", "b", ".stl", TRUE, Tri, <<"front">>, <<"dxf">>, "wireframe", 200),
      Req("convert", "b", ".stl", TRUE, NoVertices, <<"top">>, <<"png">>, "filled", 200),
      Req("convert", "b", ".ply", FALSE, NoVertices, <<"top">>, <<"svg">>, "filled", 200),
      Req("convert", "b", ".txt", TRUE, Tri, <<"top">>, <<"svg">>, "filled", 200),
      Req("batch", "a", ".stl", TRUE, Tri, <<"top", "front">>, <<"dxf", "svg">>, "filled", 200),
      Req("batch", "a", ".stl", TRUE, NoVertices, <<"top">>, <<"dxf", "png">>, "wireframe", 200),
      Req("batch", "b", ".off", FALSE, NoVertices, <<"top">>, <<"dxf">>, "filled", 200),
      Req("batch", "b", ".txt", TRUE, Tri, <<"top">>, <<"dxf">>, "filled", 200) }

Ids == 1..NumReq
NothingSent == [status |-> 0, body |-> <<>>]

InitSrv ==
    /\ reqs \in [Ids -> Requests]
    /\ pc = [r \in Ids |-> "pending"]
    /\ files = EmptyDir
    /\ tempfiles = {}
    /\ resp = [r \in Ids |-> HttpError(0)]
    /\ delivered = [r \in Ids |-> NothingSent]
    /\ IdleNorm
    /\ IdleEnc

(* what a handler's return does to the request: an HTTPException is the    *)
(* whole response; a FileResponse is still to be sent                      *)
Returned(r, h) ==
    /\ files' = h.files
    /\ tempfiles' = h.tempfiles
    /\ resp' = [resp EXCEPT ![r] = h.resp]
    /\ pc' = [pc EXCEPT ![r] = IF h.resp.status = 200 THEN "responding" ELSE "done"]
    /\ delivered' = [delivered EXCEPT ![r] =
            IF h.resp.status = 200 THEN NothingSent
            ELSE [status |-> h.resp.status, body |-> <<>>]]
    /\ UNCHANGED <<reqs, normVars, encVars>>

ConvertCad(r) ==
    /\ pc[r] = "pending"
    /\ reqs[r].kind = "convert"
    /\ \E h \in {convert_cad(r, reqs[r], files, tempfiles)} : Returned(r, h)

BatchConvert(r) ==
    /\ pc[r] = "pending"
    /\ reqs[r].kind = "batch"
    /\ \E h \in {batch_convert(r, reqs[r], files, tempfiles)} : Returned(r, h)

(* FileResponse: the file at its path is read when the response is sent;   *)
(* if it is gone by then, the send fails                                   *)
Deliver(r) ==
    /\ pc[r] = "responding"
    /\ delivered' = [delivered EXCEPT ![r] =
            IF Exists(files, resp[r].path)
            THEN [status |-> 200, body |-> files[resp[r].path].content]
            ELSE [status |-> 500, body |-> <<>>]]
    /\ pc' = [pc EXCEPT ![r] = "done"]
    /\ UNCHANGED <<reqs, files, tempfiles, resp, normVars, encVars>>

NextSrv == \E r \in Ids : ConvertCad(r) \/ BatchConvert(r) \/ Deliver(r)

SpecSrv == InitSrv /\ [][NextSrv]_vars

---------------------------------------------------------------------------
(* Claims about normalize_coords (SpecNorm).                               *)
(* The bounding box is restated here from the set of input points, not     *)
(* from normalize_coords' own intermediate values.                         *)

NormRan == ~n_result.done \/ Len(n_points) = 0
AxisVals(k) == {n_points[i][k] : i \in 1..Len(n_points)}
AxisLo(k) == CHOOSE v \in AxisVals(k) : \A w \in AxisVals(k) : NLe(v, w)
AxisHi(k) == CHOOSE v \in AxisVals(k) : \A w \in AxisVals(k) : NLe(w, v)
AxisRange(k) == NSub(AxisHi(k), AxisLo(k))
Floored(r) == IF NIsZero(r) THEN NInt(1) ELSE r
Other(k) == 3 - k
Span == NInt(n_size - 2 * Margin)

InEnvelope ==
    \A i \in 1..Len(n_points) : \A k \in 1..2 :
        /\ NLe(NInt(Margin), n_result.out.normalized[i][k])
        /\ NLe(n_result.out.normalized[i][k], NInt(n_size - Margin))

ScaleAsStated ==
    \E k \in 1..2 :
        /\ NLe(Floored(AxisRange(Other(k))), Floored(AxisRange(k)))
        /\ NMul(n_result.out.scale, Floored(AxisRange(k))) = Span

MinAtMargin(k) ==
    \A i \in 1..Len(n_points) :
        n_points[i][k] = AxisLo(k) => n_result.out.normalized[i][k] = NInt(Margin)

MaxAtFarMargin(k) ==
    \A i \in 1..Len(n_points) :
        n_points[i][k] = AxisHi(k) => n_result.out.normalized[i][k] = NInt(n_size - Margin)

LargerAxis(k) == NLe(AxisRange(Other(k)), AxisRange(k))

AllIdentical == \A i \in 1..Len(n_points) : n_points[i] = n_points[1]
Finite(x) == x.d > 0

(* C6: for a non-empty point set nothing is raised and the result is       *)
(* finite; when all points are identical, scale = (size - 2*margin)/1 and  *)
(* every normalized coordinate equals margin; when the range is zero on    *)
(* one axis, every normalized coordinate on that axis equals margin.       *)
C6_Degenerate ==
    NormRan \/
        /\ ~n_result.out.raised
        /\ Finite(n_result.out.scale)
        /\ \A i \in 1..Len(n_points) : \A k \in 1..2 : Finite(n_result.out.normalized[i][k])
        /\ AllIdentical =>
              /\ n_result.out.scale = Span
              /\ \A i \in 1..Len(n_points) : \A k \in 1..2 :
                    n_result.out.normalized[i][k] = NInt(Margin)
        /\ \A k \in 1..2 : NIsZero(AxisRange(k)) =>
              \A i \in 1..Len(n_points) : n_result.out.normalized[i][k] = NInt(Margin)

(* two identical points away from the origin have been normalized *)
C6_Witness ==
    /\ n_result.done
    /\ Len(n_points) >= 2
    /\ AllIdentical
    /\ n_points[1] # <<NInt(0), NInt(0)>>
    /\ n_size > 2 * Margin
    /\ ~n_result.out.raised

---------------------------------------------------------------------------
(* Claims about the encoders (SpecEnc) *)

EdgeModes == {"wireframe", "outline"}
NumEdges == Len(edges_unique(mesh))

NoGeometry ==
    \/ Len(mesh.vertices) = 0
    \/ (e_call.mode = "filled" /\ Len(mesh.faces) = 0)
    \/ (e_call.mode \in EdgeModes /\ NumEdges = 0)

(* C2 as stated: for each encoder and each render mode, a mesh with zero   *)
(* vertices, or zero faces in filled mode, or zero unique edges in         *)
(* wireframe/outline mode, ends in an error and no file is written.        *)
C2_EmptyMeshFails ==
    (e_call.done /\ e_call.mode \in ValidModes /\ NoGeometry)
        => (e_out.out.raised /\ ~e_out.out.written)

(* C5: to_dxf writes raw projected coordinates: in filled mode one closed  *)
(* polyline per face, in face order, through get_projection at the face's  *)
(* three indices; in wireframe/outline mode one line per unique edge, in   *)
(* edge order, between get_projection at the edge's two indices.           *)
C5_DxfRaw ==
    (e_call.done /\ e_call.fmt = "dxf" /\ e_call.mode \in ValidModes) =>
        LET proj == get_projection(mesh, e_call.view)
            doc  == e_out.out.doc
        IN  /\ ~e_out.out.raised
            /\ e_out.out.written
            /\ e_call.mode = "filled" =>
                  /\ Len(doc) = Len(mesh.faces)
                  /\ \A k \in 1..Len(mesh.faces) :
                        /\ doc[k].type = "LWPOLYLINE"
                        /\ doc[k].close
                        /\ Len(doc[k].points) = 3
                        /\ \A j \in 1..3 : doc[k].points[j] = proj[mesh.faces[k][j]]
            /\ e_call.mode \in EdgeModes =>
                  /\ Len(doc) = NumEdges
                  /\ \A k \in 1..NumEdges :
                        /\ doc[k].type = "LINE"
                        /\ doc[k].start = proj[edges_unique(mesh)[k][1]]
                        /\ doc[k].end = proj[edges_unique(mesh)[k][2]]

(* a filled DXF of a mesh with two faces sharing an edge, off the top view *)
C5_Witness ==
    /\ e_call.done
    /\ e_call.fmt = "dxf"
    /\ e_call.mode = "filled"
    /\ e_call.view = "isometric"
    /\ Len(mesh.faces) = 2
    /\ NumEdges = 5
    /\ Len(e_out.out.doc) = 2

C8_UnknownViewAndMode ==
    e_call.done =>
        /\ e_call.view \notin ValidViews =>
              e_out.out = Encode(mesh, e_call.fmt, "top", e_call.size, e_call.mode)
        /\ e_call.mode \notin ValidModes =>
              ~(/\ e_out.out.written
                /\ \E md \in ValidModes :
                      e_out.out = Encode(mesh, e_call.fmt, e_call.view, e_call.size, md))

(* the bounding box over all endpoints of all unique edges together *)
EndPts == {get_projection(mesh, e_call.view)[edges_unique(mesh)[k][j]] :
              k \in 1..NumEdges, j \in 1..2}
BoxLo(k) == CHOOSE v \in {p[k] : p \in EndPts} : \A p \in EndPts : NLe(v, p[k])
BoxHi(k) == CHOOSE v \in {p[k] : p \in EndPts} : \A p \in EndPts : NLe(p[k], v)
LineEnds(el) == IF e_call.fmt = "svg" THEN <<el.start, el.end>> ELSE el.points

(* C9: in wireframe/outline mode of to_svg and to_png, with E >= 1 unique  *)
(* edges, exactly E lines are drawn after the background, and the k-th     *)
(* line joins the y-flipped normalized images of the two projected         *)
(* endpoints of the k-th unique edge, normalized against one bounding box  *)
(* over all 2E endpoints.                                                  *)
C9_EdgePairing ==
    (/\ e_call.done
     /\ e_call.fmt \in {"svg", "png"}
     /\ e_call.mode \in EdgeModes
     /\ NumEdges >= 1) =>
        LET proj  == get_projection(mesh, e_call.view)
            edges == edges_unique(mesh)
            doc   == e_out.out.doc
            lo1   == BoxLo(1)
            lo2   == BoxLo(2)
            r1    == Floored(NSub(BoxHi(1), lo1))
            r2    == Floored(NSub(BoxHi(2), lo2))
            scale == NDiv(NInt(e_call.size - 2 * Margin), IF NLe(r1, r2) THEN r2 ELSE r1)
            Canvas(p) ==
                <<NAdd(NMul(NSub(p[1], lo1), scale), NInt(Margin)),
                  NSub(NInt(e_call.size), NAdd(NMul(NSub(p[2], lo2), scale), NInt(Margin)))>>
        IN  /\ e_out.out.written
            /\ Len(doc) = Len(edges) + 1
            /\ \A k \in 1..Len(edges) :
                  /\ doc[k + 1].type = "line"
                  /\ LineEnds(doc[k + 1]) =
                        <<Canvas(proj[edges[k][1]]), Canvas(proj[edges[k][2]])>>

(* a wireframe PNG of five edges whose endpoints differ, on a canvas wider *)
(* than its margins                                                        *)
C9_Witness ==
    /\ e_call.done
    /\ e_call.fmt = "png"
    /\ e_call.mode = "wireframe"
    /\ e_call.size > 2 * Margin
    /\ NumEdges = 5
    /\ Len(e_out.out.doc) = 6
    /\ Cardinality(EndPts) >= 4

---------------------------------------------------------------------------
(* Claims about the service layer (SpecSrv) *)

Finished(r) == pc[r] = "done"
Accepted(r) == reqs[r].ext \in ALL_FORMATS
IsBatch(r) == reqs[r].kind = "batch"
UnitOut(r, k) ==
    Encode(reqs[r].mesh, Units(reqs[r])[k][2], Units(reqs[r])[k][1], reqs[r].size, reqs[r].mode)
UnitPath(r, k) == OutputPath(reqs[r], Units(reqs[r])[k][1], Units(reqs[r])[k][2])

(* C3 as stated: in a batch, a unit that raises ends only that unit: every *)
(* other unit, before or after it, is converted and delivered uncorrupted. *)
C3_BatchIsolation ==
    \A r \in Ids :
        (Finished(r) /\ IsBatch(r) /\ Accepted(r) /\ reqs[r].load_ok) =>
            \A k \in 1..Len(Units(reqs[r])) :
                UnitOut(r, k).written =>
                    /\ delivered[r].status = 200
                    /\ \E j \in 1..Len(delivered[r].body) :
                          delivered[r].body[j] =
                              [name |-> UnitPath(r, k), content |-> UnitOut(r, k).doc]

(* what the handler of request r writes at its response path when it runs  *)
(* alone on an empty OUTPUT_DIR                                            *)
Alone(r) ==
    LET h == IF IsBatch(r) THEN batch_convert(r, reqs[r], EmptyDir, {})
             ELSE convert_cad(r, reqs[r], EmptyDir, {})
    IN  h.files[h.resp.path].content

(* C4 as stated: for any interleaving of requests, each request that was   *)
(* answered with a file is delivered exactly what it would produce when    *)
(* run alone.                                                              *)
C4_NoInterference ==
    \A r \in Ids :
        (Finished(r) /\ resp[r].status = 200) =>
            delivered[r] = [status |-> 200, body |-> Alone(r)]

(* C10: once the handler of an accepted request has returned, on every     *)
(* path, the temporary copy of its upload no longer exists; and no file    *)
(* written by a batch other than its zip archive remains in OUTPUT_DIR.    *)
C10_Cleanup ==
    \A r \in Ids :
        (pc[r] \in {"responding", "done"} /\ Accepted(r)) =>
            /\ r \notin tempfiles
            /\ IsBatch(r) =>
                  \A n \in DOMAIN files : files[n].writer = r => n = ZipPath(reqs[r])

(* a batch has failed after converting a unit, leaving its partial zip, and *)
(* a /convert request has failed to load its mesh                          *)
C10_Witness ==
    \E r, q \in Ids :
        /\ IsBatch(r) /\ Finished(r) /\ resp[r].status = 500
        /\ Exists(files, ZipPath(reqs[r]))
        /\ files[ZipPath(reqs[r])].writer = r
        /\ Len(files[ZipPath(reqs[r])].content) >= 1
        /\ ~IsBatch(q) /\ Finished(q) /\ Accepted(q) /\ ~reqs[q].load_ok
        /\ resp[q].status = 500

====
